---------------------------- MODULE Spec2Model ----------------------------
(***************************************************************************)
(* Payout settlement engine of simplecoin_rpc_client                       *)
(* (src/simplecoin_rpc_client/payout_manager.py, driven by scheduler.py).  *)
(*                                                                         *)
(* One engine, one currency, one SQLAlchemy session.  `store` is the       *)
(* committed content of the payouts table, `sess` is what the session      *)
(* sees: the committed rows overlaid with the changes made to the mapped   *)
(* objects that were neither committed nor rolled back.  session.commit()  *)
(* is store' = sess, session.rollback() is sess' = store.                  *)
(*                                                                         *)
(* Amounts are integers counted in units of 1e-9 coin, so that rounding    *)
(* to 8 fractional digits is a real operation (round to a multiple of 10). *)
(* The user column and the four audit timestamps are written but never     *)
(* read by any operation and are left out of the rows.                     *)
(***************************************************************************)
EXTENDS Integers, Sequences, FiniteSets, TLC

\* ------------------------------------------------------------------ bounds
MaxPid == 4          \* pids the coordinator knows: 1..MaxPid
MaxResp == 2         \* longest get_payouts response
MaxTx == 2           \* transactions the wallet sends in one run
MaxRows == 2         \* rows the payouts table holds at most
MaxTr == 3           \* trade requests the coordinator has open
DecimalScale == 1000 \* units per 1 kept by a Decimal quotient
BtcQuantity == 12    \* the btc_quantity an operator passes to close_sell_requests
BtcFees == 2         \* the btc_fees passed with it
MaxConcPid == 6      \* pids the coordinator knows when two processes send
MaxConcRows == 4     \* rows the table holds at most when two processes send

\* --------------------------------------------------------- program constants
None == 0                    \* a NULL txid
coin_txid_sim == 111         \* the fake "1111...1" txid of a simulated send
minimum_tx_output == 10      \* 0.00000001 coin
valid_address_version == 48  \* the configured valid_address_versions = [48]
min_confirms == 12

currency_code == "LTC"

Pids == 1..MaxPid
Txids == 1..MaxTx
Addresses == {"A", "B", "X"}
Balances == {-10, 10, 30}

\* What the coordinator's ledger holds for a pid: the (address, amount) of
\* the tuple (user, address, amount, pid) it returns for it.
LedgerAddress(pid) ==
    CASE pid % 4 = 1 -> "A"
      [] pid % 4 = 2 -> "A"
      [] pid % 4 = 3 -> "B"
      [] OTHER -> "X"

LedgerAmount(pid) ==
    CASE pid % 4 = 1 -> 4
      [] pid % 4 = 2 -> 6
      [] pid % 4 = 3 -> 20
      [] OTHER -> 20

Tuple(pid) == [pid |-> pid, address |-> LedgerAddress(pid), amount |-> LedgerAmount(pid)]

\* the lists of at most n elements of S: what a JSON list in an answer can be
RECURSIVE ListsUpTo(_, _)
ListsUpTo(S, n) ==
    IF n = 0 THEN {<<>>} ELSE ListsUpTo(S, n - 1) \cup [1..n -> S]

\* get_payouts responses: every list of at most MaxResp tuples
Responses == ListsUpTo({Tuple(p) : p \in Pids}, MaxResp)

\* cryptokit.base58.get_bcaddress_version, on the model's addresses
get_bcaddress_version(address) == IF address = "X" THEN 0 ELSE valid_address_version

valid_address_versions == {valid_address_version}

VARIABLES
    store,      \* committed rows of the payouts table, in id order
    sess,       \* the rows as the session sees them
    pc,         \* where the running operation stands ("idle": none running)
    send,       \* locals of the send_payout in progress
    sentCount,  \* per pid: successful send_many calls that paid it
    issued,     \* txids the wallet has handed out so far
    last,       \* what the last step did: operation, simulate, result, POSTs
    exclusive,  \* the process holding the table's exclusive transaction
    procPc,     \* two processes sending at once: where each send_payout is
    procSend,   \* and its locals
    tick        \* the scheduler's job in progress over the enabled currencies

\* the state of the two concurrent processes and of the scheduler's job
cvars == <<exclusive, procPc, procSend, tick>>

vars == <<store, sess, pc, send, sentCount, issued, last, exclusive, procPc, procSend, tick>>

\* --------------------------------------------------------------------- rows
PayoutForeign(id, pid, address, amount) ==
    [id |-> id, pid |-> pid, address |-> address, amount |-> amount,
     currency_code |-> "BTC", txid |-> None,
     associated |-> FALSE, locked |-> FALSE]

\* class Payout
Payout(id, pid, address, amount) ==
    [id |-> id, pid |-> pid, address |-> address, amount |-> amount,
     currency_code |-> currency_code, txid |-> None,
     associated |-> FALSE, locked |-> FALSE]

Ids(rows) == 1..Len(rows)

PULLED(r) == r.txid = None /\ ~r.locked
LOCKED(r) == r.txid = None /\ r.locked
PAID(r) == r.txid # None /\ ~r.associated
ASSOCIATED(r) == r.txid # None /\ r.associated

\* The locals of send_payout that outlive a step: payouts (the ids of the
\* selected rows), address_payout_amounts, balance, coin_txid, and who called.
\* was_locked is no local of the code: it remembers which rows were locked
\* already when the operation began.
NoSend == [ids |-> {}, recipients |-> <<>>, balance |-> 0, txid |-> None,
           job |-> "none", was_locked |-> {}]

NoPosts == {}

\* no scheduled job is running
NoTick == [job |-> "none", order |-> <<>>, k |-> 0, ran |-> {}, failed |-> {},
           outcome |-> "none"]

\* the scheduler's process and an operator's command line
Procs == {"scheduler", "operator"}

NoCounts == [new |-> 0, repeat |-> 0, invalid |-> 0]

\* the arguments of a trade command that has none
NoArgs == [currency |-> "none", start_tr_id |-> None, stop_tr_id |-> None,
           btc_quantity |-> 0, btc_fees |-> 0]

\* What a step shows of itself: the operation, its simulate flag, what the
\* wallet and the coordinator did during it (env), the value it returned
\* ("raised": it ended with an exception), the POSTs it made that change the
\* coordinator, for pull_payouts the logged counters, and for send_payout
\* the balance it read before deciding (0 when it read none).  called is
\* what a caller that went through call() gets in place of ret; no_fee is,
\* for associate_all, the txids whose get_transaction raised.  For the
\* trade commands: the arguments, the get_trade_requests answer (trs), the
\* lists built from it (srs, brs) and the dictionary prepared for posting.
callReraises(ret) == ret

\* call(command, **kwargs): what the by-name dispatcher returns for an
\* operation that ended with ret
call(ret) == IF ret = "raised" THEN "False" ELSE ret

Last(op, simulate, env, ret) ==
    [op |-> op, simulate |-> simulate, env |-> env, ret |-> ret,
     called |-> call(ret),
     posts |-> NoPosts, counts |-> NoCounts, balance |-> 0,
     no_fee |-> {},
     args |-> NoArgs, trs |-> <<>>, srs |-> <<>>, brs |-> <<>>, completed |-> <<>>]

Init ==
    /\ store = <<>>
    /\ sess = <<>>
    /\ pc = "idle"
    /\ send = NoSend
    /\ sentCount = [p \in Pids |-> 0]
    /\ issued = 0
    /\ last = Last("none", FALSE, "none", "None")
    /\ exclusive = "none"
    /\ procPc = [p \in Procs |-> "idle"]
    /\ procSend = [p \in Procs |-> NoSend]
    /\ tick = NoTick

\* ------------------------------------------------------------- pull_payouts
PidExistsNever(rows, pid) == FALSE

\* self.db.session.query(Payout).filter_by(pid=pid).first()
PidExists(rows, pid) == \E i \in Ids(rows) : rows[i].pid = pid

\* a loop that ends at the first tuple with an invalid address
RECURSIVE PullLoopStops(_, _, _, _, _)
PullLoopStops(rows, resp, k, simulate, counts) ==
    IF k > Len(resp) THEN [rows |-> rows, counts |-> counts]
    ELSE LET t == resp[k] IN
         IF get_bcaddress_version(t.address) \notin valid_address_versions
         THEN [rows |-> rows, counts |-> [counts EXCEPT !.invalid = @ + 1]]
         ELSE IF PidExists(rows, t.pid)
         THEN PullLoopStops(rows, resp, k + 1, simulate,
                            [counts EXCEPT !.repeat = @ + 1])
         ELSE PullLoopStops(IF simulate THEN rows
                            ELSE Append(rows, Payout(Len(rows) + 1, t.pid, t.address, t.amount)),
                            resp, k + 1, simulate,
                            [counts EXCEPT !.new = @ + 1])

\* The loop over the response: the rows of the session and the three
\* counters after the tuples resp[k..] were processed.
RECURSIVE PullLoop(_, _, _, _, _)
PullLoop(rows, resp, k, simulate, counts) ==
    IF k > Len(resp) THEN [rows |-> rows, counts |-> counts]
    ELSE LET t == resp[k] IN
         IF get_bcaddress_version(t.address) \notin valid_address_versions
         THEN PullLoop(rows, resp, k + 1, simulate,
                       [counts EXCEPT !.invalid = @ + 1])
         ELSE IF PidExists(rows, t.pid)
         THEN PullLoop(rows, resp, k + 1, simulate,
                       [counts EXCEPT !.repeat = @ + 1])
         ELSE PullLoop(IF simulate THEN rows
                       ELSE Append(rows, Payout(Len(rows) + 1, t.pid, t.address, t.amount)),
                       resp, k + 1, simulate,
                       [counts EXCEPT !.new = @ + 1])

\* post('get_payouts') raises ConnectionError: logged, returns None
PullUnreachable(simulate) ==
    /\ UNCHANGED cvars
    /\ pc = "idle"
    /\ last' = Last("pull_payouts", simulate, "unreachable", "None")
    /\ pc' = "returned"
    /\ UNCHANGED <<store, sess, send, sentCount, issued>>

\* the failed request ends in the commit of whatever the session holds
PullRemoteErrorCommits(simulate) ==
    /\ UNCHANGED cvars
    /\ pc = "idle"
    /\ last' = Last("pull_payouts", simulate, "remote_error", "raised")
    /\ store' = sess
    /\ pc' = "returned"
    /\ UNCHANGED <<sess, send, sentCount, issued>>

\* post('get_payouts') raises SCRPCException (non-200, bad signature, stale)
PullRemoteError(simulate) ==
    /\ UNCHANGED cvars
    /\ pc = "idle"
    /\ last' = Last("pull_payouts", simulate, "remote_error", "raised")
    /\ pc' = "returned"
    /\ UNCHANGED <<store, sess, send, sentCount, issued>>

\* the coordinator answers with the list resp
PullResponse(simulate, resp) ==
    /\ UNCHANGED cvars
    /\ pc = "idle"
    /\ IF resp = <<>>
       THEN /\ last' = Last("pull_payouts", simulate, "response", "None")
            /\ UNCHANGED <<store, sess>>
       ELSE LET res == PullLoop(sess, resp, 1, simulate, NoCounts) IN
            /\ Len(res.rows) <= MaxRows
            /\ sess' = res.rows
            /\ store' = res.rows      \* session.commit()
            /\ last' = [Last("pull_payouts", simulate, "response", "True")
                          EXCEPT !.counts = res.counts]
    /\ pc' = "returned"
    /\ UNCHANGED <<send, sentCount, issued>>

pull_payouts ==
    \E simulate \in BOOLEAN :
        \/ PullUnreachable(simulate)
        \/ PullRemoteError(simulate)
        \/ \E resp \in Responses : PullResponse(simulate, resp)

\* -------------------------------------------------------------- send_payout
UnpaidAnyLock(rows) ==
    {i \in Ids(rows) : /\ rows[i].txid = None
                       /\ rows[i].currency_code = currency_code}

\* query(Payout).filter_by(txid=None, locked=False, currency_code=...).all()
UnpaidUnlocked(rows) ==
    {i \in Ids(rows) : /\ rows[i].txid = None
                       /\ ~rows[i].locked
                       /\ rows[i].currency_code = currency_code}

RECURSIVE SumAmounts(_, _)
SumAmounts(rows, ids) ==
    IF ids = {} THEN 0
    ELSE LET i == CHOOSE j \in ids : TRUE
         IN rows[i].amount + SumAmounts(rows, ids \ {i})

\* round(float(amount), 8): to the nearest multiple of 1e-8, halves away from 0
Round8(x) == IF x >= 0 THEN ((x + 5) \div 10) * 10 ELSE -(((-x) + 5) \div 10) * 10

\* address_payout_amounts after the first loop: the total per address
AddressTotals(rows, ids) ==
    [a \in {rows[i].address : i \in ids} |->
        SumAmounts(rows, {i \in ids : rows[i].address = a})]

\* an address below the network minimum keeps its entry, with amount 0
AddressPayoutAmountsKeepsDust(rows, ids) ==
    LET totals == AddressTotals(rows, ids)
    IN [a \in DOMAIN totals |->
          IF Round8(totals[a]) < minimum_tx_output THEN 0 ELSE Round8(totals[a])]

\* address_payout_amounts after the second loop: addresses below the
\* network minimum are popped, the others carry the rounded total
AddressPayoutAmounts(rows, ids) ==
    LET totals == AddressTotals(rows, ids)
        kept == {a \in DOMAIN totals : ~(Round8(totals[a]) < minimum_tx_output)}
    IN [a \in kept |-> Round8(totals[a])]

RECURSIVE SumValues(_, _)
SumValues(f, keys) ==
    IF keys = {} THEN 0
    ELSE LET a == CHOOSE b \in keys : TRUE
         IN f[a] + SumValues(f, keys \ {a})

\* the rows of a dropped address are not unlocked
LockedIdsAll(rows, ids, recipients) == ids

\* the selected rows that stay locked after the two loops
LockedIds(rows, ids, recipients) == {i \in ids : rows[i].address \in DOMAIN recipients}

SetLockedNoop(rows, ids, value) == rows

SetLocked(rows, ids, value) ==
    [i \in Ids(rows) |-> IF i \in ids THEN [rows[i] EXCEPT !.locked = value] ELSE rows[i]]

\* lines 253-258: rows of a paid address get the txid and are unlocked
FinalizeNoTxid(rows, ids, recipients, txid) ==
    [i \in Ids(rows) |->
        IF i \in ids /\ rows[i].address \in DOMAIN recipients
        THEN [rows[i] EXCEPT !.locked = FALSE]
        ELSE rows[i]]

\* every selected row gets the txid, paid or not
FinalizeAllSelected(rows, ids, recipients, txid) ==
    [i \in Ids(rows) |->
        IF i \in ids
        THEN [rows[i] EXCEPT !.locked = FALSE, !.txid = txid]
        ELSE rows[i]]

Finalize(rows, ids, recipients, txid) ==
    [i \in Ids(rows) |->
        IF i \in ids /\ rows[i].address \in DOMAIN recipients
        THEN [rows[i] EXCEPT !.locked = FALSE, !.txid = txid]
        ELSE rows[i]]

BalanceChangedNever(new_balance, balance) == FALSE

BalanceChangedAlways(new_balance, balance) == TRUE

\* line 231: new_balance != balance
BalanceChanged(new_balance, balance) == new_balance # balance

OutOfFundsNever(balance, total_out) == FALSE

\* line 187: balance < total_out
OutOfFunds(balance, total_out) == balance < total_out

NothingToPayNever(total_out) == FALSE

\* line 193: total_out == 0
NothingToPay(total_out) == total_out = 0

\* the failed poke is logged and the payouts are locked all the same
SendPokeFailsGoesOn(simulate) ==
    /\ UNCHANGED cvars
    /\ pc = "idle"
    /\ last' = Last("send_payout", simulate, "poke_failed", "False")
    /\ sess' = SetLocked(sess, UnpaidUnlocked(sess), TRUE)
    /\ store' = sess'
    /\ pc' = "returned"
    /\ UNCHANGED <<send, sentCount, issued>>

\* poke_rpc raises CoinRPCException: logged, returns False
SendPokeFails(simulate) ==
    /\ UNCHANGED cvars
    /\ pc = "idle"
    /\ last' = Last("send_payout", simulate, "poke_failed", "False")
    /\ pc' = "returned"
    /\ UNCHANGED <<store, sess, send, sentCount, issued>>

\* lines 130-201 (and, simulating, the prompt and lines 248-263): select,
\* lock, drop dust, read the balance, commit the locks
SendPayoutBegin(simulate, job) ==
    /\ UNCHANGED cvars
    /\ pc = "idle"
    /\ LET ids == UnpaidUnlocked(sess)
           recipients == AddressPayoutAmounts(sess, ids)
           locked == SetLocked(sess, LockedIds(sess, ids, recipients), TRUE)
           total_out == SumValues(recipients, DOMAIN recipients)
       IN
       IF ids = {}
       THEN /\ last' = Last("send_payout", simulate, "no_payouts", "True")
            /\ pc' = "returned"
            /\ UNCHANGED <<store, sess, send>>
       ELSE
         \/ \* get_balance raises: the locks stay pending in the session
            /\ sess' = locked
            /\ last' = Last("send_payout", simulate, "get_balance_failed", "raised")
            /\ pc' = "returned" /\ UNCHANGED <<store, send>>
         \/ \E balance \in Balances :
              IF OutOfFunds(balance, total_out)
              THEN /\ sess' = store        \* rollback
                   /\ last' = [Last("send_payout", simulate, "balance_low", "False")
                                 EXCEPT !.balance = balance]
                   /\ pc' = "returned" /\ UNCHANGED <<store, send>>
              ELSE IF NothingToPay(total_out)
              THEN /\ sess' = store        \* rollback
                   /\ last' = [Last("send_payout", simulate, "all_dust", "True")
                                 EXCEPT !.balance = balance]
                   /\ pc' = "returned" /\ UNCHANGED <<store, send>>
              ELSE IF ~simulate
              THEN /\ sess' = locked
                   /\ store' = locked      \* commit
                   /\ pc' = "send_many"
                   /\ send' = [ids |-> ids, recipients |-> recipients,
                               balance |-> balance, txid |-> None, job |-> job,
                               was_locked |-> {i \in Ids(store) : store[i].locked}]
                   /\ last' = [Last("send_payout", simulate, "send_many", "running")
                                 EXCEPT !.balance = balance]
              ELSE \E res \in {"y", "n"} :
                   IF res # "y"
                   THEN /\ sess' = store   \* rollback
                        /\ last' = [Last("send_payout", simulate, "answer_n", "True")
                                      EXCEPT !.balance = balance]
                        /\ pc' = "returned" /\ UNCHANGED <<store, send>>
                   ELSE LET fin == Finalize(store, ids, recipients, coin_txid_sim) IN
                        /\ sess' = fin
                        /\ store' = fin    \* rollback, then lines 248-260
                        /\ last' = [Last("send_payout", simulate, "answer_y", "tuple")
                                      EXCEPT !.balance = balance]
                        /\ pc' = "returned" /\ UNCHANGED send
    /\ UNCHANGED <<sentCount, issued>>

\* line 226: send_many returns (coin_txid, rpc_tx_obj), the wallet has paid
SendManyReturns ==
    /\ UNCHANGED cvars
    /\ pc = "send_many"
    /\ issued < MaxTx
    /\ issued' = issued + 1
    /\ send' = [send EXCEPT !.txid = issued + 1]
    /\ sentCount' = [p \in Pids |->
          IF \E i \in send.ids : /\ store[i].pid = p
                                 /\ store[i].address \in DOMAIN send.recipients
          THEN sentCount[p] + 1 ELSE sentCount[p]]
    /\ pc' = "sent"
    /\ last' = Last("send_payout", FALSE, "send_many_returned", "running")
    /\ UNCHANGED <<store, sess>>

\* lines 248-263: store the txid, unlock, commit, return the tuple
SendPayoutFinish ==
    /\ UNCHANGED cvars
    /\ pc = "sent"
    /\ LET fin == Finalize(sess, send.ids, send.recipients, send.txid) IN
       /\ sess' = fin
       /\ store' = fin
    /\ last' = Last("send_payout", FALSE, "send_many_returned", "tuple")
    /\ IF send.job = "settle"
       THEN /\ pc' = "settle"
            /\ UNCHANGED send
       ELSE /\ pc' = "returned"
            /\ send' = NoSend
    /\ UNCHANGED <<sentCount, issued>>

\* lines 228-247: send_many raises CoinRPCException
SendManyRaises ==
    /\ UNCHANGED cvars
    /\ pc = "send_many"
    /\ \/ \* get_balance raises in the handler
          /\ last' = Last("send_payout", FALSE, "rpc_error_no_balance", "raised")
          /\ UNCHANGED <<store, sess>>
       \/ \E new_balance \in Balances :
            LET env == IF new_balance # send.balance
                       THEN "rpc_error_balance_changed" ELSE "rpc_error_balance_same"
            IN
            IF BalanceChanged(new_balance, send.balance)
            THEN /\ last' = Last("send_payout", FALSE, env, "False")
                 /\ UNCHANGED <<store, sess>>
            ELSE LET unlocked == SetLocked(sess, send.ids, FALSE) IN
                 /\ sess' = unlocked
                 /\ store' = unlocked
                 /\ last' = Last("send_payout", FALSE, env, "False")
    /\ pc' = "returned"
    /\ send' = NoSend
    /\ UNCHANGED <<sentCount, issued>>

CrashReleases ==
    /\ UNCHANGED cvars
    /\ pc \in {"send_many", "sent", "settle"}
    /\ pc' = "returned"
    /\ send' = NoSend
    /\ store' = SetLocked(store, send.ids, FALSE)
    /\ sess' = store'
    /\ last' = Last("crash", FALSE, "none", "None")
    /\ UNCHANGED <<sentCount, issued>>

\* the process stops inside send_payout or the settle job: what the session
\* held is gone, what was committed stays
Crash ==
    /\ UNCHANGED cvars
    /\ pc \in {"send_many", "sent", "settle"}
    /\ pc' = "returned"
    /\ send' = NoSend
    /\ sess' = store
    /\ last' = Last("crash", FALSE, "none", "None")
    /\ UNCHANGED <<store, sentCount, issued>>

send_payout ==
    \/ \E simulate \in BOOLEAN : SendPokeFails(simulate)
    \/ \E simulate \in BOOLEAN : SendPayoutBegin(simulate, "cli")
    \/ SendPayoutBegin(FALSE, "settle")
    \/ SendManyReturns
    \/ SendManyRaises
    \/ SendPayoutFinish

\* ------------------------------------------------- associate_all, associate
UnassociatedAnyTxid(rows) ==
    {i \in Ids(rows) : /\ ~rows[i].associated
                       /\ rows[i].currency_code = currency_code}

\* query(Payout).filter_by(associated=False, currency_code=...)
\*               .filter(Payout.txid != None).all()
PaidUnassociated(rows) ==
    {i \in Ids(rows) : /\ ~rows[i].associated
                       /\ rows[i].currency_code = currency_code
                       /\ rows[i].txid # None}

\* the keys of the dict txids
TxidBuckets(rows) == {rows[i].txid : i \in PaidUnassociated(rows)}

\* the orders in which a dict of these keys may be iterated
Orders(S) == {f \in [1..Cardinality(S) -> S] : \A i, j \in DOMAIN f : f[i] = f[j] => i = j}

\* the POST of lines 312-319 and what the coordinator did with it
AssociatePost(txid, pids, answer) ==
    [url |-> "associate_payouts", txid |-> txid, pids |-> pids, tids |-> {},
     answer |-> answer]

SetAssociated(rows, ids) ==
    [i \in Ids(rows) |-> IF i \in ids THEN [rows[i] EXCEPT !.associated = TRUE] ELSE rows[i]]

\* the rows are marked associated whatever res['result'] is
associateUnchecked(st, txid, ids, answer, simulate) ==
    IF simulate THEN st
    ELSE LET posted == [st EXCEPT !.posts = @ \cup
                           {AssociatePost(txid, {st.sess[i].pid : i \in ids}, answer)}]
             rows == SetAssociated(st.sess, ids)
         IN IF answer = "raised" THEN [posted EXCEPT !.raised = TRUE]
            ELSE [posted EXCEPT !.sess = rows, !.store = rows]

\* associate(txid, payouts, tx_fee): st is [sess, store, posts, raised], the
\* answer is what the coordinator does with the POST
associate(st, txid, ids, answer, simulate) ==
    IF simulate THEN st
    ELSE LET posted == [st EXCEPT !.posts = @ \cup
                           {AssociatePost(txid, {st.sess[i].pid : i \in ids}, answer)}]
         IN CASE answer = "raised" -> [posted EXCEPT !.raised = TRUE]
              [] answer = "true" ->
                    LET rows == SetAssociated(st.sess, ids)
                    IN [posted EXCEPT !.sess = rows, !.store = rows]
              [] OTHER -> posted

\* lines 286-301: the loop over the buckets, in the order the dict yields
\* them.  outcomes[txid] is "no_fee" when get_transaction(txid) had raised
\* (tx_fees[txid] then raises KeyError), and otherwise what the coordinator
\* does with the POST.
RECURSIVE AssociateLoop(_, _, _, _, _, _)
AssociateLoop(st, buckets, order, k, outcomes, simulate) ==
    IF k > Len(order) \/ st.raised THEN st
    ELSE LET txid == order[k] IN
         IF outcomes[txid] = "no_fee" THEN [st EXCEPT !.raised = TRUE]
         ELSE AssociateLoop(associate(st, txid, buckets[txid], outcomes[txid], simulate),
                            buckets, order, k + 1, outcomes, simulate)

Answers == {"true", "false", "raised"}

Outcomes(simulate) == IF simulate THEN {"no_fee", "true"} ELSE Answers \cup {"no_fee"}

\* associate_all
AssociateAllResult(rows, committed, order, outcomes, simulate) ==
    LET ids == PaidUnassociated(rows)
        buckets == [t \in TxidBuckets(rows) |-> {i \in ids : rows[i].txid = t}]
    IN AssociateLoop([sess |-> rows, store |-> committed, posts |-> NoPosts, raised |-> FALSE],
                     buckets, order, 1, outcomes, simulate)

\* one run of associate_all: the dict yields the txids in this order, and
\* outcomes says what the wallet and the coordinator do for each txid
AssociateAllStep(simulate, order, outcomes) ==
    /\ UNCHANGED cvars
    /\ pc = "idle"
    /\ LET res == AssociateAllResult(sess, store, order, outcomes, simulate) IN
       /\ sess' = res.sess
       /\ store' = res.store
       /\ last' = [Last("associate_all", simulate, "outcomes",
                        IF res.raised THEN "raised" ELSE "None")
                   EXCEPT !.posts = res.posts,
                          !.no_fee = {t \in DOMAIN outcomes : outcomes[t] = "no_fee"}]
    /\ pc' = "returned"
    /\ UNCHANGED <<send, sentCount, issued>>

associate_all ==
    \E simulate \in BOOLEAN :
    \E order \in Orders(TxidBuckets(sess)) :
    \E outcomes \in [TxidBuckets(sess) -> Outcomes(simulate)] :
        AssociateAllStep(simulate, order, outcomes)

\* scheduler.py, PayoutManager.send_payout after a send that returned the
\* tuple: associate_all(), then associate(coin_txid, payouts, tx.fee)
SettleAssociateStep(order, outcomes, answer) ==
    /\ UNCHANGED cvars
    /\ pc = "settle"
    /\ LET all == AssociateAllResult(sess, store, order, outcomes, FALSE)
           res == IF all.raised THEN all
                  ELSE associate(all, send.txid,
                                 LockedIds(sess, send.ids, send.recipients),
                                 answer, FALSE)
       IN
       /\ sess' = res.sess
       /\ store' = res.store
       /\ last' = [Last("settle", FALSE, "outcomes",
                        IF res.raised THEN "raised" ELSE "None")
                   EXCEPT !.posts = res.posts,
                          !.no_fee = {t \in DOMAIN outcomes : outcomes[t] = "no_fee"}]
    /\ pc' = "returned"
    /\ send' = NoSend
    /\ UNCHANGED <<sentCount, issued>>

SettleAssociate ==
    \E order \in Orders(TxidBuckets(sess)) :
    \E outcomes \in [TxidBuckets(sess) -> Outcomes(FALSE)] :
    \E answer \in Answers :
        SettleAssociateStep(order, outcomes, answer)

\* ------------------------------------------------------------ confirm_trans
ConfirmPost(tids, answer) ==
    [url |-> "confirm_transactions", txid |-> None, pids |-> {}, tids |-> tids,
     answer |-> answer]

ConfirmedTidsAtLeast(objects, confirmations) ==
    {t \in objects : confirmations[t] >= min_confirms}

\* lines 359-374: the txids with more than min_confirms confirmations
ConfirmedTids(objects, confirmations) ==
    {t \in objects : confirmations[t] > min_confirms}

\* lines 383-390: what confirm_trans returns after its POST
ConfirmReturn(result) ==
    CASE result = "true" -> "True"
      [] result = "false" -> "False"
      [] OTHER -> "raised"

ConfirmObjectsCommits(simulate, objects, confirmations, result) ==
    LET tids == ConfirmedTids(objects, confirmations) IN
    /\ UNCHANGED cvars
    /\ pc = "idle"
    /\ IF objects = {} \/ simulate \/ tids = {}
       THEN last' = Last("confirm_trans", simulate, "objects", "None")
       ELSE last' = [Last("confirm_trans", simulate, "objects", ConfirmReturn(result))
                     EXCEPT !.posts = {ConfirmPost(tids, result)}]
    /\ pc' = "returned"
    /\ store' = sess
    /\ UNCHANGED <<sess, send, sentCount, issued>>

\* the coordinator answered with success and the unconfirmed txids `objects`;
\* the wallet reports confirmations[t] for each of them
ConfirmObjects(simulate, objects, confirmations, result) ==
    LET tids == ConfirmedTids(objects, confirmations) IN
    /\ UNCHANGED cvars
    /\ pc = "idle"
    /\ IF objects = {} \/ simulate \/ tids = {}
       THEN last' = Last("confirm_trans", simulate, "objects", "None")
       ELSE last' = [Last("confirm_trans", simulate, "objects", ConfirmReturn(result))
                     EXCEPT !.posts = {ConfirmPost(tids, result)}]
    /\ pc' = "returned"
    /\ UNCHANGED <<store, sess, send, sentCount, issued>>

Confirmations(objects) == [objects -> {min_confirms, min_confirms + 1}]

\* poke_rpc raises, the GET or a get_transaction raises, or success is false
ConfirmFails ==
    /\ UNCHANGED cvars
    /\ pc = "idle"
    /\ \E simulate \in BOOLEAN :
       \/ last' = Last("confirm_trans", simulate, "poke_failed", "False")
       \/ last' = Last("confirm_trans", simulate, "remote_error", "raised")
       \/ last' = Last("confirm_trans", simulate, "no_success", "None")
    /\ pc' = "returned"
    /\ UNCHANGED <<store, sess, send, sentCount, issued>>

confirm_trans ==
    \/ ConfirmFails
    \/ \E simulate \in BOOLEAN, objects \in SUBSET Txids, result \in Answers :
          \E confirmations \in Confirmations(objects) :
             ConfirmObjects(simulate, objects, confirmations, result)

\* ------------------------------------------------------------------- repair
LockedRowsUnpaid(rows) == {i \in Ids(rows) : rows[i].locked /\ rows[i].txid = None}

\* query(Payout).filter_by(locked=True)
LockedRows(rows) == {i \in Ids(rows) : rows[i].locked}

reset_all_locked ==
    /\ UNCHANGED cvars
    /\ pc = "idle"
    /\ \E simulate \in BOOLEAN :
       /\ IF simulate
          THEN UNCHANGED <<store, sess>>
          ELSE LET rows == SetLocked(sess, LockedRows(sess), FALSE) IN
               /\ sess' = rows
               /\ store' = rows
       /\ last' = Last("reset_all_locked", simulate, "none", "None")
    /\ pc' = "returned"
    /\ UNCHANGED <<send, sentCount, issued>>

LockedAnyTxid(rows) ==
    {i \in Ids(rows) : /\ rows[i].locked
                       /\ rows[i].currency_code = currency_code}

\* query(Payout).filter_by(txid=None, locked=True, currency_code=...).all()
UnpaidLocked(rows) ==
    {i \in Ids(rows) : /\ rows[i].txid = None
                       /\ rows[i].locked
                       /\ rows[i].currency_code = currency_code}

SetTxid(rows, ids, tx_id) ==
    [i \in Ids(rows) |-> IF i \in ids THEN [rows[i] EXCEPT !.txid = tx_id] ELSE rows[i]]

local_associate_all_locked ==
    /\ UNCHANGED cvars
    /\ pc = "idle"
    /\ \E simulate \in BOOLEAN, tx_id \in Txids :
       /\ IF simulate
          THEN /\ last' = Last("local_associate_all_locked", simulate, "none", "None")
               /\ UNCHANGED <<store, sess>>
          ELSE LET rows == SetTxid(sess, UnpaidLocked(sess), tx_id) IN
               /\ sess' = rows
               /\ store' = rows
               /\ last' = Last("local_associate_all_locked", simulate, "none", "True")
    /\ pc' = "returned"
    /\ UNCHANGED <<send, sentCount, issued>>

\* the query ends in .all(), a list: payout.id in the log line raises
\* AttributeError before anything is changed
LocalAssociateLocked(simulate, pid, tx_id) ==
    /\ UNCHANGED cvars
    /\ pc = "idle"
    /\ last' = Last("local_associate_locked", simulate, "none", "raised")
    /\ pc' = "returned"
    /\ UNCHANGED <<store, sess, send, sentCount, issued>>

local_associate_locked ==
    \E simulate \in BOOLEAN, pid \in 1..MaxRows, tx_id \in Txids :
       LocalAssociateLocked(simulate, pid, tx_id)

\* drops and recreates the table, whatever simulate is
init_db ==
    /\ UNCHANGED cvars
    /\ pc = "idle"
    /\ \E simulate \in BOOLEAN :
       last' = Last("init_db", simulate, "none", "None")
    /\ store' = <<>>
    /\ sess' = <<>>
    /\ pc' = "returned"
    /\ UNCHANGED <<send, sentCount, issued>>

\* The caller (the scheduler's wrapper, the command line) has the result,
\* or the stopped process is started again: the next operation can begin.
Return ==
    /\ UNCHANGED cvars
    /\ pc = "returned"
    /\ pc' = "idle"
    /\ last' = Last("none", FALSE, "none", "None")
    /\ UNCHANGED <<store, sess, send, sentCount, issued>>

\* ---------------------------------------------------------------- scheduler
\* A statement of a scheduled job on the table raises a SQLAlchemyError (the
\* file is locked by another process, say).  crontab's handler logs and then
\* evaluates self.db.session.rollback() on the scheduler's PayoutManager,
\* whose __init__ sets logger, sc_rpc and coin_rpc only: the AttributeError
\* leaves the wrapper and the session is not rolled back.
CrontabStoreError ==
    /\ UNCHANGED cvars
    /\ pc = "idle"
    /\ last' = Last("crontab", FALSE, "sqlalchemy_error", "escaped")
    /\ pc' = "returned"
    /\ UNCHANGED <<store, sess, send, sentCount, issued>>

\* entry() adds pull_payouts for every minute and send_payout for 23:00; the
\* scheduler hands each due job to its thread pool, so the minute's
\* pull_payouts runs while the send job started at 23:00 is still between
\* its commits, on the same SCRPCClient and session.
PullDuringSendJob ==
    /\ UNCHANGED cvars
    /\ pc \in {"send_many", "sent", "settle"}
    /\ send.job = "settle"
    /\ \E resp \in Responses :
         IF resp = <<>>
         THEN UNCHANGED <<store, sess>>
         ELSE LET res == PullLoop(sess, resp, 1, FALSE, NoCounts) IN
              /\ Len(res.rows) <= MaxRows
              /\ sess' = res.rows
              /\ store' = res.rows
    /\ last' = Last("pull_payouts", FALSE, "overlap", "True")
    /\ UNCHANGED <<pc, send, sentCount, issued>>

\* ------------------------------------------------------------ trade manager
TrIds == 1..MaxTr

\* what the operator types at "Does this look correct? [y/n] "
Typed == {"y", "n", "Y"}

\* post('update_trade_requests', data={'update': True, 'trs': ...})
TradePost(trs, answer) ==
    [url |-> "update_trade_requests", txid |-> None, pids |-> {}, tids |-> {},
     trs |-> trs, answer |-> answer]

\* `'success' in response` decides the result; a failed request raises
TradeReturn(answer, yes, no) ==
    CASE answer = "true" -> yes
      [] answer = "false" -> no
      [] OTHER -> "raised"

\* update_tr(tr_id, quantity, fees, status): asks, then posts
update_tr ==
    /\ UNCHANGED cvars
    /\ pc = "idle"
    /\ \E simulate \in BOOLEAN, tr_id \in TrIds :
       \/ \* int(status) raises ValueError
          last' = Last("update_tr", simulate, "not_asked", "raised")
       \/ \E res \in Typed :
            IF res # "y" \/ simulate
            THEN last' = Last("update_tr", simulate, res, "False")
            ELSE \E answer \in Answers :
                 last' = [Last("update_tr", simulate, res, TradeReturn(answer, "True", "False"))
                          EXCEPT !.posts = {TradePost({tr_id}, answer)}]
    /\ pc' = "returned"
    /\ UNCHANGED <<store, sess, send, sentCount, issued>>

\* close_trade_request(tr_id, quantity, total_fees): posts without asking
close_trade_request ==
    /\ UNCHANGED cvars
    /\ pc = "idle"
    /\ \E simulate \in BOOLEAN, tr_id \in TrIds :
       IF simulate
       THEN last' = Last("close_trade_request", simulate, "not_asked", "None")
       ELSE \E answer \in Answers :
            last' = [Last("close_trade_request", simulate, "not_asked",
                          TradeReturn(answer, "None", "None"))
                     EXCEPT !.posts = {TradePost({tr_id}, answer)}]
    /\ pc' = "returned"
    /\ UNCHANGED <<store, sess, send, sentCount, issued>>

\* the fields of a trade request [tr_id, currency, quantity, type]; isinst
\* says whether the four values have the Python types the checks ask for
TrCurrencies == {"LTC", "DOGE"}
TrQuantities == {1, 3}
TrTypes == {"sell", "buy", "hold"}
TradeRequests ==
    [currency : TrCurrencies, quantity : TrQuantities,
     type : TrTypes, isinst : BOOLEAN]

\* post('get_trade_requests')['trs']: at most MaxTr requests, numbered in
\* the order of the answer
TradeResponses ==
    {[i \in DOMAIN r |->
        [tr_id |-> i, currency |-> r[i].currency, quantity |-> r[i].quantity,
         type |-> r[i].type, isinst |-> r[i].isinst]] :
     r \in ListsUpTo(TradeRequests, MaxTr)}

\* bool(s) of a string
Truthy(s) == s # ""

\* assert type == 'buy' or 'sell'
TypeAssert(type) == type = "buy" \/ Truthy("sell")

\* the five asserts of the checking loop
TrAsserts(tr) == tr.isinst /\ TypeAssert(tr.type)

IsSell(tr) == tr.type = "sell"
IsBuy(tr) == tr.type = "buy"

\* what get_open_trade_requests returns for the answer trs: None (ok is
\* false) or the pair srs, brs
GetOpenTradeRequests(trs) ==
    IF \E i \in 1..Len(trs) : ~TrAsserts(trs[i])
    THEN [ok |-> FALSE, srs |-> <<>>, brs |-> <<>>]
    ELSE [ok |-> TRUE, srs |-> SelectSeq(trs, IsSell), brs |-> SelectSeq(trs, IsBuy)]

get_open_trade_requests ==
    /\ UNCHANGED cvars
    /\ pc = "idle"
    /\ \/ \* ConnectionError: logged, returns None
          last' = Last("get_open_trade_requests", FALSE, "unreachable", "None")
       \/ \E trs \in TradeResponses :
            LET got == GetOpenTradeRequests(trs) IN
            last' = [Last("get_open_trade_requests", FALSE, "response",
                          IF got.ok THEN "tuple" ELSE "None")
                     EXCEPT !.trs = trs, !.srs = got.srs, !.brs = got.brs]
    /\ pc' = "returned"
    /\ UNCHANGED <<store, sess, send, sentCount, issued>>

KeptAnyId(sr, currency, start_tr_id, stop_tr_id) == sr.currency = currency

\* the pruning loop keeps a sell request of the currency whose id is not
\* below a given start_tr_id nor above a given stop_tr_id
Kept(sr, currency, start_tr_id, stop_tr_id) ==
    /\ sr.currency = currency
    /\ ~(start_tr_id # None /\ start_tr_id > sr.tr_id)
    /\ ~(stop_tr_id # None /\ stop_tr_id < sr.tr_id)

RECURSIVE TotalQuant(_)
TotalQuant(srs) ==
    IF srs = <<>> THEN 0 ELSE Head(srs).quantity + TotalQuant(Tail(srs))

\* Decimal(a) / Decimal(b) in the context's precision: the quotient in
\* units of 1/DecimalScale, rounded to the nearest
DecimalDiv(a, b) == (2 * a * DecimalScale + b) \div (2 * b)

\* completed_srs: per kept request the status and its shares, the shares in
\* units of 1/DecimalScale
CompletedSrs(srs, total_quant, btc_quantity, btc_fees) ==
    [id \in {srs[i].tr_id : i \in 1..Len(srs)} |->
        LET sr == srs[CHOOSE i \in 1..Len(srs) : srs[i].tr_id = id]
            sr_perc == DecimalDiv(sr.quantity, total_quant)
        IN [status |-> 6, quantity |-> sr_perc * btc_quantity, fees |-> sr_perc * btc_fees]]

\* close_sell_requests(currency, btc_quantity, btc_fees, start_tr_id,
\* stop_tr_id) when get_trade_requests answers trs
CloseSellRequests(simulate, args, trs) ==
    LET got == GetOpenTradeRequests(trs)
        LKept(sr) == Kept(sr, args.currency, args.start_tr_id, args.stop_tr_id)
        srs == SelectSeq(got.srs, LKept)
        total_quant == TotalQuant(srs)
        completed == CompletedSrs(srs, total_quant, args.btc_quantity, args.btc_fees)
        base == [Last("close_sell_requests", simulate, "not_asked", "raised")
                   EXCEPT !.args = args, !.trs = trs]
    IN IF ~got.ok
       THEN \* `srs, _ = None` raises TypeError
            last' = base
       ELSE IF total_quant = 0
       THEN \* btc_quantity / total_quant raises
            last' = [base EXCEPT !.srs = srs]
       ELSE \E res \in Typed :
            IF res # "y" \/ simulate
            THEN last' = [base EXCEPT !.env = res, !.ret = "None", !.called = call("None"),
                                      !.srs = srs, !.completed = completed]
            ELSE \E answer \in Answers :
                 last' = [base EXCEPT !.env = res,
                                      !.ret = TradeReturn(answer, "None", "None"),
                                      !.called = call(TradeReturn(answer, "None", "None")),
                                      !.srs = srs, !.completed = completed,
                                      !.posts = {TradePost(DOMAIN completed, answer)}]

\* the arguments of close_sell_requests
CloseArgs ==
    [currency : TrCurrencies, start_tr_id : {None} \cup TrIds,
     stop_tr_id : {None} \cup TrIds, btc_quantity : {BtcQuantity}, btc_fees : {BtcFees}]

close_sell_requests ==
    /\ UNCHANGED cvars
    /\ pc = "idle"
    /\ \E simulate \in BOOLEAN :
       \/ \* get_open_trade_requests could not connect and returned None
          last' = Last("close_sell_requests", simulate, "not_asked", "raised")
       \/ \E args \in CloseArgs, trs \in TradeResponses :
            CloseSellRequests(simulate, args, trs)
    /\ pc' = "returned"
    /\ UNCHANGED <<store, sess, send, sentCount, issued>>

\* ------------------------------------------ two processes on the same table
\* do_begin emits BEGIN EXCLUSIVE for every transaction: it succeeds when no
\* other connection has a transaction open on the file
ExclusiveFree(p) == exclusive \in {"none", p}

\* the rows process p hands, or handed, to send_many
ProcRecipientRows(p) ==
    LockedIds(store, procSend[p].ids, procSend[p].recipients)

\* a pull_payouts, in a transaction of its own, stores the next payout the
\* coordinator owes
ProcPull ==
    /\ exclusive = "none"
    /\ Len(store) < MaxConcRows
    /\ \E pid \in 1..MaxConcPid :
         /\ \A i \in Ids(store) : store[i].pid < pid
         /\ store' = PullLoop(store, <<Tuple(pid)>>, 1, FALSE, NoCounts).rows
    /\ UNCHANGED <<sess, pc, send, sentCount, issued, last, cvars>>

\* lines 132-176: the query begins the transaction; select, lock, drop dust
ProcSelect(p) ==
    /\ procPc[p] = "idle"
    /\ ExclusiveFree(p)
    /\ exclusive' = p
    /\ LET ids == UnpaidUnlocked(store)
           recipients == AddressPayoutAmounts(store, ids)
       IN IF ids = {}
          THEN UNCHANGED <<procPc, procSend>>    \* returns True, nothing ends the transaction
          ELSE /\ procPc' = [procPc EXCEPT ![p] = "selected"]
               /\ procSend' = [procSend EXCEPT ![p] =
                                  [NoSend EXCEPT !.ids = ids, !.recipients = recipients]]
    /\ UNCHANGED <<store, sess, pc, send, sentCount, issued, last, tick>>

\* lines 177-199: read the balance, roll back or commit the locks
ProcCommitLocks(p) ==
    /\ procPc[p] = "selected"
    /\ LET s == procSend[p]
           total_out == SumValues(s.recipients, DOMAIN s.recipients)
       IN
       \/ \* get_balance raises: the transaction stays open, the locks pending
          /\ procPc' = [procPc EXCEPT ![p] = "failed"]
          /\ UNCHANGED <<store, exclusive, procSend>>
       \/ \E balance \in Balances :
            IF OutOfFunds(balance, total_out) \/ NothingToPay(total_out)
            THEN /\ procPc' = [procPc EXCEPT ![p] = "idle"]
                 /\ procSend' = [procSend EXCEPT ![p] = NoSend]
                 /\ exclusive' = "none"
                 /\ UNCHANGED store
            ELSE /\ store' = SetLocked(store, LockedIds(store, s.ids, s.recipients), TRUE)
                 /\ exclusive' = "none"
                 /\ procPc' = [procPc EXCEPT ![p] = "send_many"]
                 /\ procSend' = [procSend EXCEPT ![p].balance = balance]
    /\ UNCHANGED <<sess, pc, send, sentCount, issued, last, tick>>

\* a transaction left open ends: the process exits (rollback), or its next
\* operation commits what the session holds
ProcEndTransaction(p) ==
    /\ exclusive = p
    /\ procPc[p] \in {"idle", "failed"}
    /\ \/ UNCHANGED store
       \/ /\ procPc[p] = "failed"
          /\ store' = SetLocked(store, ProcRecipientRows(p), TRUE)
    /\ exclusive' = "none"
    /\ procPc' = [procPc EXCEPT ![p] = "idle"]
    /\ procSend' = [procSend EXCEPT ![p] = NoSend]
    /\ UNCHANGED <<sess, pc, send, sentCount, issued, last, tick>>

\* line 226: the wallet pays and returns the txid
ProcSendManyReturns(p) ==
    /\ procPc[p] = "send_many"
    /\ issued < MaxTx
    /\ issued' = issued + 1
    /\ procSend' = [procSend EXCEPT ![p].txid = issued + 1]
    /\ procPc' = [procPc EXCEPT ![p] = "sent"]
    /\ UNCHANGED <<store, sess, pc, send, sentCount, last, tick, exclusive>>

\* lines 228-247: send_many raises; with the balance unchanged every
\* selected row is unlocked, in a new transaction
ProcSendManyRaises(p) ==
    /\ procPc[p] = "send_many"
    /\ \/ UNCHANGED store    \* get_balance raises, the balance changed, or the file is busy
       \/ /\ ExclusiveFree(p)
          /\ store' = SetLocked(store, procSend[p].ids, FALSE)
    /\ procPc' = [procPc EXCEPT ![p] = "idle"]
    /\ procSend' = [procSend EXCEPT ![p] = NoSend]
    /\ UNCHANGED <<sess, pc, send, sentCount, issued, last, tick, exclusive>>

\* lines 248-263: store the txid and unlock, in a new transaction; when the
\* file is busy the statement raises and the rows stay as they are
ProcFinish(p) ==
    /\ procPc[p] = "sent"
    /\ IF ExclusiveFree(p)
       THEN store' = Finalize(store, procSend[p].ids, procSend[p].recipients,
                              procSend[p].txid)
       ELSE UNCHANGED store
    /\ procPc' = [procPc EXCEPT ![p] = "idle"]
    /\ procSend' = [procSend EXCEPT ![p] = NoSend]
    /\ UNCHANGED <<sess, pc, send, sentCount, issued, last, tick, exclusive>>

\* ------------------------------------------------------------ specifications
\* the operations the scheduler runs, and the same from the command line
EngineNext ==
    \/ pull_payouts
    \/ send_payout
    \/ SettleAssociate
    \/ associate_all
    \/ confirm_trans
    \/ CrontabStoreError
    \/ PullDuringSendJob
    \/ Crash
    \/ Return

\* the operator's repair commands and init_db
RepairNext ==
    \/ reset_all_locked
    \/ local_associate_all_locked
    \/ local_associate_locked
    \/ init_db

Next == EngineNext \/ RepairNext

Spec == Init /\ [][Next]_vars

\* only the engine's operations: no repair command is ever run
EngineSpec == Init /\ [][EngineNext]_vars

\* two processes send against the same table while payouts are pulled
ConcNext ==
    \/ ProcPull
    \/ \E p \in Procs : ProcSelect(p)
    \/ \E p \in Procs : ProcCommitLocks(p)
    \/ \E p \in Procs : ProcEndTransaction(p)
    \/ \E p \in Procs : ProcSendManyReturns(p)
    \/ \E p \in Procs : ProcSendManyRaises(p)
    \/ \E p \in Procs : ProcFinish(p)

ConcSpec == Init /\ [][ConcNext]_vars

\* the operator's trade commands
TradeNext ==
    \/ get_open_trade_requests
    \/ update_tr
    \/ close_trade_request
    \/ close_sell_requests

\* the trade commands, one after the other
TradeSpec == Init /\ [][TradeNext \/ Return]_vars

\* ------------------------------------------------------------------- claims
\* the rows a send_payout in progress hands to send_many: the selected rows
\* whose address is in the recipient map
RecipientRows == {i \in send.ids : store[i].address \in DOMAIN send.recipients}

EngineOps == {"pull_payouts", "send_payout", "associate_all", "settle", "confirm_trans"}

\* C1: with only pull, send, associate and confirm running (simulated or
\* not, with any wallet or coordinator failure and any crash), no pid is
\* among the recipient rows of more than one send_many call that succeeded.
C1_NoDoublePay == \A p \in Pids : sentCount[p] <= 1

\* two send_many calls succeeded, each paying another pid
C1_TwoSends ==
    /\ issued = 2
    /\ \E p, q \in Pids : p # q /\ sentCount[p] = 1 /\ sentCount[q] = 1

C2_LockCommittedBeforeSendMany_Step ==
    pc \in {"send_many", "sent"} =>
          \A i \in RecipientRows :
             /\ LOCKED(store[i])
             /\ \/ LOCKED(store'[i])
                \/ pc = "sent" /\ PAID(store'[i]) /\ store'[i].txid = send.txid
                \/ /\ pc = "send_many"
                   /\ last'.env = "rpc_error_balance_same"
                   /\ PULLED(store'[i])

C3_BalanceChangedKeepsLocked_Step ==
    (pc = "send_many" /\ last'.env = "rpc_error_balance_changed") =>
          /\ last'.ret = "False"
          /\ pc' = "returned"
          /\ store' = store
          /\ \A i \in RecipientRows : LOCKED(store'[i])

\* C3: when send_many raises a wallet error and the balance read afterwards
\* differs from the one read before, send_payout returns False and the table
\* is as it was: every recipient row is still LOCKED.
C3_BalanceChangedKeepsLocked == [][C3_BalanceChangedKeepsLocked_Step]_vars

\* send_payout has returned False after such an error, rows are LOCKED
C3_LeftLocked ==
    /\ pc = "returned"
    /\ last.env = "rpc_error_balance_changed"
    /\ \E i \in Ids(store) : LOCKED(store[i])

C4_BalanceSameUnlocks_Step ==
    (pc = "send_many" /\ last'.env = "rpc_error_balance_same") =>
          /\ last'.ret = "False"
          /\ pc' = "returned"
          /\ Len(store') = Len(store)
          /\ \A i \in Ids(store) :
                IF i \in send.ids
                THEN /\ store'[i] = [store[i] EXCEPT !.locked = FALSE]
                     /\ PULLED(store'[i])
                     /\ i \in UnpaidUnlocked(sess')
                ELSE store'[i] = store[i]

\* C4: when send_many raises a wallet error and the balance read afterwards
\* equals the one read before, send_payout returns False and every row it
\* had selected is committed with locked=false and no txid, nothing else of
\* it changed, so that the next send_payout selects it again.
C4_BalanceSameUnlocks == [][C4_BalanceSameUnlocks_Step]_vars

\* send_payout has returned False after such an error, rows are PULLED
C4_Released ==
    /\ pc = "returned"
    /\ last.env = "rpc_error_balance_same"
    /\ \E i \in Ids(store) : PULLED(store[i]) /\ store[i].address = "B"

C5_LockedUntouchedByEngine_Step ==
    \A i \in Ids(store) :
          (LOCKED(store[i]) /\ (pc = "idle" \/ i \in send.was_locked)
                            /\ last'.op \in EngineOps)
             => (i \in Ids(store') /\ store'[i] = store[i])

\* C5: a row that is LOCKED in the committed table when pull, send,
\* associate (alone or in the settle job) or confirm begins is the same row,
\* field for field, after every step of that operation.
C5_LockedUntouchedByEngine == [][C5_LockedUntouchedByEngine_Step]_vars

\* a send_payout paid other rows while a row stayed LOCKED
C5_SendBesideLocked ==
    /\ pc = "returned"
    /\ last.op = "send_payout"
    /\ last.ret = "tuple"
    /\ ~last.simulate
    /\ \E i \in Ids(store) : LOCKED(store[i])

C6_SimulateChangesNothing_Step ==
    last'.simulate => (store' = store /\ last'.posts = NoPosts)

\* C6: a step of an operation called with simulate=true leaves the committed
\* table as it was and makes no POST that changes the coordinator.
C6_SimulateChangesNothing == [][C6_SimulateChangesNothing_Step]_vars

C7_PaidNeverRegresses_Step ==
    last'.op # "init_db" =>
          \A i \in Ids(store) :
             /\ i \in Ids(store')
             /\ (store[i].txid # None => store'[i].txid = store[i].txid)
             /\ (store[i].associated => store'[i].associated)

\* C7: under every operation but init_db no row disappears, a txid once
\* committed stays the same and associated=true stays true.
C7_PaidNeverRegresses == [][C7_PaidNeverRegresses_Step]_vars

\* a repair command has run on a table that holds an ASSOCIATED row and a
\* row that has a txid and is locked
C7_RepairBesidePaid ==
    /\ pc = "returned"
    /\ last.op = "local_associate_all_locked"
    /\ ~last.simulate
    /\ \E i \in Ids(store) : ASSOCIATED(store[i])
    /\ \E i \in Ids(store) : store[i].txid # None /\ store[i].locked

\* C8: every committed row with associated=true has a txid.
C8_AssociatedHasTxid ==
    \A i \in Ids(store) : store[i].associated => store[i].txid # None

\* a row was associated by the settle job
C8_Associated ==
    /\ last.op = "settle"
    /\ \E i \in Ids(store) : store[i].associated

\* C9: no two committed rows have the same pid.
C9_PidUnique ==
    \A i, j \in Ids(store) : store[i].pid = store[j].pid => i = j

\* a response that lists one new pid twice has been pulled: one row
C9_SamePidTwice ==
    /\ pc = "returned"
    /\ last.op = "pull_payouts"
    /\ ~last.simulate
    /\ last.counts = [new |-> 1, repeat |-> 1, invalid |-> 0]
    /\ Len(store) = 1

ValidTuples(resp) ==
    {k \in 1..Len(resp) : get_bcaddress_version(resp[k].address) \in valid_address_versions}

C10_PullIdempotent_Step ==
    \A resp \in Responses :
          (resp # <<>> /\ PullResponse(FALSE, resp)) =>
             LET again == PullLoop(sess', resp, 1, FALSE, NoCounts) IN
             /\ again.rows = store'
             /\ again.counts = [new |-> 0,
                                repeat |-> Cardinality(ValidTuples(resp)),
                                invalid |-> Len(resp) - Cardinality(ValidTuples(resp))]

\* C10: after a pull_payouts that processed the response resp, a second
\* pull_payouts with the same resp commits the very same table: it inserts
\* nothing, changes no row, and counts every tuple with a valid address as
\* a repeat.
C10_PullIdempotent == [][C10_PullIdempotent_Step]_vars

\* a pull_payouts found both its tuples in the table, one of them PAID
C10_AllRepeats ==
    /\ pc = "returned"
    /\ last.op = "pull_payouts"
    /\ ~last.simulate
    /\ last.counts = [new |-> 0, repeat |-> 2, invalid |-> 0]
    /\ Len(store) = 2
    /\ \E i \in Ids(store) : PAID(store[i])

C11_PullPerTuple_Step ==
    \A resp \in Responses :
          (resp # <<>> /\ PullResponse(FALSE, resp)) =>
             LET valid == ValidTuples(resp)
                 known == {sess[i].pid : i \in Ids(sess)}
                 fresh == {resp[k].pid : k \in valid} \ known
             IN
             /\ Len(store') = Len(sess) + Cardinality(fresh)
             /\ \A i \in Ids(sess) : store'[i] = sess[i]
             /\ \A p \in fresh : \E i \in Ids(store') : store'[i].pid = p
             /\ \A i \in (Len(sess) + 1)..Len(store') :
                   /\ PULLED(store'[i])
                   /\ ~store'[i].associated
                   /\ store'[i].currency_code = currency_code
                   /\ \E k \in valid :
                         /\ store'[i].pid = resp[k].pid
                         /\ store'[i].address = resp[k].address
                         /\ store'[i].amount = resp[k].amount
             /\ sess' = store'
             /\ last'.counts = [new |-> Cardinality(fresh),
                                repeat |-> Cardinality(valid) - Cardinality(fresh),
                                invalid |-> Len(resp) - Cardinality(valid)]

C12_PullFailureChangesNothing_Step ==
    (pc = "idle" /\ last'.op = "pull_payouts"
                 /\ last'.env \in {"unreachable", "remote_error"})
       => (store' = store /\ sess' = sess /\ pc' = "returned")

\* C12: when the get_payouts request fails (connection error, or the
\* exception raised for a non-200 answer, a bad signature or a stale
\* timestamp), pull_payouts leaves the committed table and the session as
\* they were.
C12_PullFailureChangesNothing == [][C12_PullFailureChangesNothing_Step]_vars

\* the request failed while the table held rows and the session held locks
\* that were never committed
C12_FailedWithPendingLocks ==
    /\ pc = "returned"
    /\ last.op = "pull_payouts"
    /\ last.env = "remote_error"
    /\ store # <<>>
    /\ sess # store

\* the sum of the amounts of the rows ids of rows that go to address a
AddrSum(rows, ids, a) == SumAmounts(rows, {j \in ids : rows[j].address = a})

\* the rows of ids whose address has a rounded total below the minimum
DustRows(rows, ids) ==
    {i \in ids : Round8(AddrSum(rows, ids, rows[i].address)) < minimum_tx_output}

C13_DustDropped_Step ==
    /\ (pc = "idle" /\ pc' = "send_many") =>
          \A i \in send'.ids :
             IF i \in DustRows(sess, send'.ids)
             THEN /\ sess[i].address \notin DOMAIN send'.recipients
                  /\ PULLED(store'[i])
             ELSE sess[i].address \in DOMAIN send'.recipients
    /\ (pc \in {"send_many", "sent", "settle"}) =>
          \A i \in send.ids \ RecipientRows :
             PULLED(store[i]) /\ store'[i] = store[i]
    /\ (pc = "idle" /\ last'.op = "send_payout" /\ last'.env = "answer_y") =>
          \A i \in DustRows(sess, UnpaidUnlocked(sess)) : PULLED(store'[i])

OneSendMany ==
    /\ pc' = "send_many" => pc \in {"idle", "send_many"}
    /\ pc = "send_many" => \/ pc' # "send_many" /\ issued' <= issued + 1
                           \/ pc' = pc /\ send' = send /\ issued' = issued
    /\ pc # "send_many" => issued' = issued

\* the rows send_payout selects: unpaid, unlocked, of the configured currency
SelectedIsUnpaidUnlocked ==
    send'.ids = {i \in Ids(sess) : /\ sess[i].txid = None
                                    /\ ~sess[i].locked
                                    /\ sess[i].currency_code = currency_code}

C14_RecipientMapUnrounded_Step ==
    /\ OneSendMany
    /\ (pc = "idle" /\ pc' = "send_many") =>
          LET addrs == {sess[i].address : i \in send'.ids} IN
          /\ SelectedIsUnpaidUnlocked
          /\ DOMAIN send'.recipients =
                {a \in addrs : AddrSum(sess, send'.ids, a) >= minimum_tx_output}
          /\ \A a \in DOMAIN send'.recipients :
                send'.recipients[a] = AddrSum(sess, send'.ids, a)

\* C14 as stated: one send_many per send_payout, whose map has one entry for
\* each address of the selected rows with a total of at least
\* minimum_tx_output, the entry being that total.
C14_RecipientMapUnrounded == [][C14_RecipientMapUnrounded_Step]_vars

C14_RecipientMap_Step ==
    /\ OneSendMany
    /\ (pc = "idle" /\ pc' = "send_many") =>
          LET addrs == {sess[i].address : i \in send'.ids} IN
          /\ SelectedIsUnpaidUnlocked
          /\ DOMAIN send'.recipients =
                {a \in addrs : Round8(AddrSum(sess, send'.ids, a)) >= minimum_tx_output}
          /\ \A a \in DOMAIN send'.recipients :
                send'.recipients[a] = Round8(AddrSum(sess, send'.ids, a))

\* C14, amended: one send_many per send_payout, whose map has one entry for
\* each address of the selected rows whose total, rounded to 8 fractional
\* digits, is at least minimum_tx_output, the entry being the rounded total.
C14_RecipientMap == [][C14_RecipientMap_Step]_vars

\* send_many is called with one entry that sums two rows
C14_TwoRowsOneEntry ==
    /\ pc = "send_many"
    /\ \E i, j \in RecipientRows : i # j /\ store[i].address = store[j].address

\* the rows a step has written
Written == {i \in Ids(store) : store'[i] # store[i]}

\* the step that commits the txid after send_many returned: the rows it
\* finalizes are the selected rows of the addresses in the map
FinalizedAreRecipientRows ==
    /\ send.txid # None
    /\ Written = {i \in send.ids : store[i].address \in DOMAIN send.recipients}
    /\ \A i \in Written :
          store'[i] = [store[i] EXCEPT !.locked = FALSE, !.txid = send.txid]

C15_SumIntegrityUnrounded_Step ==
    (pc = "sent" /\ last'.ret = "tuple") =>
       /\ FinalizedAreRecipientRows
       /\ \A a \in DOMAIN send.recipients :
             AddrSum(store', Written, a) = send.recipients[a]

\* C15 as stated: after a successful send the finalized rows are the
\* selected rows whose address is in the map, and per address their amounts
\* sum to the amount requested of the wallet.
C15_SumIntegrityUnrounded == [][C15_SumIntegrityUnrounded_Step]_vars

C15_SumIntegrity_Step ==
    (pc = "sent" /\ last'.ret = "tuple") =>
       /\ FinalizedAreRecipientRows
       /\ \A a \in DOMAIN send.recipients :
             Round8(AddrSum(store', Written, a)) = send.recipients[a]

\* C15, amended: after a successful send the finalized rows (locked=false,
\* txid = the returned txid) are the selected rows whose address is in the
\* map, and per address their amounts sum, after rounding to 8 fractional
\* digits, to the amount requested of the wallet.
C15_SumIntegrity == [][C15_SumIntegrity_Step]_vars

\* a send paid two rows of one address and returned its tuple
C15_TwoRowsFinalized ==
    /\ pc = "returned"
    /\ last.op = "send_payout"
    /\ last.ret = "tuple"
    /\ ~last.simulate
    /\ \E i, j \in Ids(store) :
          /\ i # j
          /\ PAID(store[i]) /\ PAID(store[j])
          /\ store[i].address = store[j].address
          /\ store[i].txid = store[j].txid

\* the total of the map send_payout builds from the rows ids of rows
TotalOut(rows, ids) ==
    LET kept == {a \in {rows[i].address : i \in ids} :
                    Round8(AddrSum(rows, ids, a)) >= minimum_tx_output}
    IN SumValues([a \in kept |-> Round8(AddrSum(rows, ids, a))], kept)

\* the outcomes of a send_payout that has read the balance
BalanceReadEnvs == {"balance_low", "all_dust", "send_many", "answer_n", "answer_y"}

\* a step of send_payout that selected rows and read the wallet's balance
SendReadBalance ==
    /\ pc = "idle"
    /\ last'.op = "send_payout"
    /\ last'.env \in BalanceReadEnvs
    /\ UnpaidUnlocked(sess) # {}

\* rolled back, send_many not called, the selected rows PULLED
RolledBackNothingSent ==
    /\ pc' = "returned"
    /\ store' = store
    /\ sess' = store
    /\ issued' = issued
    /\ sentCount' = sentCount
    /\ \A i \in UnpaidUnlocked(sess) : PULLED(store'[i])

C16_BalanceLowRollsBack_Step ==
    (SendReadBalance /\ last'.balance < TotalOut(sess, UnpaidUnlocked(sess)))
       => (RolledBackNothingSent /\ last'.ret = "False")

\* C16: when the balance send_payout reads is below the total of the map,
\* it rolls the pending locks back, does not call send_many, leaves every
\* selected row PULLED in the committed table and returns False.
C16_BalanceLowRollsBack == [][C16_BalanceLowRollsBack_Step]_vars

\* send_payout found a balance of 10 too low and returned, rows are PULLED
C16_OutOfFunds ==
    /\ pc = "returned"
    /\ last.op = "send_payout"
    /\ last.env = "balance_low"
    /\ last.balance = 10
    /\ \E i \in Ids(store) : PULLED(store[i])

C17_AllDustAnyBalance_Step ==
    (SendReadBalance /\ TotalOut(sess, UnpaidUnlocked(sess)) = 0)
       => (RolledBackNothingSent /\ last'.ret = "True")

C17_AllDustRollsBack_Step ==
    (SendReadBalance /\ TotalOut(sess, UnpaidUnlocked(sess)) = 0)
       => /\ RolledBackNothingSent
          /\ last'.balance >= 0 => last'.ret = "True"
          /\ last'.balance < 0 => last'.ret = "False"

C18_PokeFailureChangesNothing_Step ==
    (pc = "idle" /\ last'.op \in {"send_payout", "confirm_trans"}
                 /\ last'.env = "poke_failed")
       => /\ pc' = "returned"
          /\ last'.ret = "False"
          /\ store' = store
          /\ sess' = sess
          /\ last'.posts = NoPosts
          /\ last'.balance = 0
          /\ issued' = issued
          /\ sentCount' = sentCount

\* C18: when poke_rpc fails, send_payout and confirm_trans return False
\* with the committed table and the session as they were, no balance read,
\* no send_many and no POST to the coordinator.
C18_PokeFailureChangesNothing == [][C18_PokeFailureChangesNothing_Step]_vars

\* send_payout returned after a failed poke while rows waited to be paid
C18_PokeFailedBesidePulled ==
    /\ pc = "returned"
    /\ last.op = "send_payout"
    /\ last.env = "poke_failed"
    /\ \E i \in Ids(store) : PULLED(store[i])

\* the associate_payouts POSTs of the step that carried txid t
AssociatePostsOf(t) ==
    {post \in last'.posts : post.url = "associate_payouts" /\ post.txid = t}

C19_AssociatedAfterTrue_Step ==
    /\ \A i \in Ids(store) \cap Ids(store') :
          (~store[i].associated /\ store'[i].associated) =>
             \E post \in AssociatePostsOf(store'[i].txid) :
                /\ post.answer = "true"
                /\ store'[i].pid \in post.pids
    /\ last'.op \in {"associate_all", "settle"} =>
          \A t \in {post.txid : post \in last'.posts} :
             (\A post \in AssociatePostsOf(t) : post.answer # "true") =>
                \A i \in Ids(store) :
                   (store[i].txid = t /\ ~store[i].associated) =>
                      /\ PAID(store'[i])
                      /\ i \in PaidUnassociated(sess')

\* C19: a row becomes associated only in a step in which the coordinator
\* answered result=true to an associate_payouts POST carrying the row's
\* txid and pid; when no POST for a txid got that answer (result=false, or
\* the request failed) the rows of the txid stay PAID and are in the
\* selection of the next associate_all.
C19_AssociatedAfterTrue == [][C19_AssociatedAfterTrue_Step]_vars

\* one associate_all got result=true for one txid and result=false for
\* another: one row ASSOCIATED, one still PAID
C19_OneTrueOneFalse ==
    /\ pc = "returned"
    /\ last.op = "associate_all"
    /\ \E p, q \in last.posts :
          /\ p.answer = "true" /\ q.answer = "false"
          /\ \E i, j \in Ids(store) :
                /\ store[i].txid = p.txid /\ ASSOCIATED(store[i])
                /\ store[j].txid = q.txid /\ PAID(store[j])

C20_OtherBucketsStillPosted_Step ==
    \A order \in Orders(TxidBuckets(sess)) :
    \A outcomes \in [TxidBuckets(sess) -> {"no_fee", "true", "false"}] :
       AssociateAllStep(FALSE, order, outcomes) =>
          \A t \in TxidBuckets(sess) :
             outcomes[t] # "no_fee" =>
                /\ AssociatePostsOf(t) # {}
                /\ outcomes[t] = "true" =>
                      \A i \in PaidUnassociated(sess) :
                         sess[i].txid = t => store'[i].associated

\* C20: in a run of associate_all in which get_transaction fails for some
\* txids and no POST fails, every txid whose fee was found is posted to the
\* coordinator, and its rows are marked associated when the answer is
\* result=true.
C20_OtherBucketsStillPosted == [][C20_OtherBucketsStillPosted_Step]_vars


\* the POSTs to confirm_transactions of the operation that just returned
ConfirmPosts == {p \in last.posts : p.url = "confirm_transactions"}

C21_ConfirmPostsOverMinConfirms_Step ==
    \A simulate \in BOOLEAN, objects \in SUBSET Txids, result \in Answers :
       \A confirmations \in Confirmations(objects) :
          ConfirmObjects(simulate, objects, confirmations, result) =>
             LET over == {t \in objects : confirmations[t] > min_confirms} IN
             IF simulate \/ over = {}
             THEN last'.posts = {}
             ELSE /\ Cardinality(last'.posts) = 1
                  /\ \A p \in last'.posts :
                        p.url = "confirm_transactions" /\ p.tids = over

\* C21: when the coordinator lists the unconfirmed txids and the wallet
\* reports their confirmations, confirm_trans makes one POST to
\* confirm_transactions carrying exactly the listed txids with more than
\* min_confirms confirmations (one with exactly min_confirms is left out),
\* and makes no POST when there is none or when simulate is true.
C21_ConfirmPostsOverMinConfirms == [][C21_ConfirmPostsOverMinConfirms_Step]_vars

\* a confirm_trans reported one txid and not the other
C21_PostedOneOfTwo ==
    /\ pc = "returned"
    /\ last.op = "confirm_trans"
    /\ \E p \in ConfirmPosts : Cardinality(p.tids) = 1

C22_ConfirmLeavesStore_Step ==
    (pc = "idle" /\ last'.op = "confirm_trans") => store' = store /\ sess' = sess

\* C22: confirm_trans changes no row of the table and nothing in the
\* session, whatever the coordinator answers and the wallet reports and
\* whether or not it is simulated.
C22_ConfirmLeavesStore == [][C22_ConfirmLeavesStore_Step]_vars

\* a confirm_trans made its POST while the session held uncommitted locks
C22_ConfirmedBesidePending ==
    /\ pc = "returned"
    /\ last.op = "confirm_trans"
    /\ ConfirmPosts # {}
    /\ sess # store

C23_ResetUnlocksOnly_Step ==
    (pc = "idle" /\ last'.op = "reset_all_locked" /\ ~last'.simulate) =>
          /\ Len(store') = Len(store)
          /\ \A i \in Ids(store) : store'[i] = [store[i] EXCEPT !.locked = FALSE]

\* C23: a reset_all_locked that is not simulated leaves every row of the
\* table with locked = false and changes nothing else: no row is added or
\* removed, and txid, associated, amount, address, pid and currency of
\* every row are what they were.
C23_ResetUnlocksOnly == [][C23_ResetUnlocksOnly_Step]_vars

\* a reset ran on a table holding a row with a txid beside a row without
C23_ResetBesideTxid ==
    /\ pc = "returned"
    /\ last.op = "reset_all_locked"
    /\ ~last.simulate
    /\ \E i, j \in Ids(store) : store[i].txid # None /\ store[j].txid = None

C24_LocalAssociateAllClearsLock_Step ==
    (pc = "idle" /\ last'.op = "local_associate_all_locked" /\ ~last'.simulate) =>
          /\ Len(store') = Len(store)
          /\ \E t \in Txids :
                \A i \in Ids(store) :
                   IF LOCKED(store[i])
                   THEN store'[i] = [store[i] EXCEPT !.txid = t, !.locked = FALSE]
                   ELSE store'[i] = store[i]
          /\ \A i \in Ids(store') : ~LOCKED(store'[i])

\* C24: a local_associate_all_locked(txid) that is not simulated makes
\* every LOCKED row PAID with that txid and locked = false, leaves no row
\* LOCKED and changes no other row.
C24_LocalAssociateAllClearsLock == [][C24_LocalAssociateAllClearsLock_Step]_vars

C25_LocalAssociateLockedSetsTxid_Step ==
    \A pid \in 1..MaxRows, tx_id \in Txids :
       (LocalAssociateLocked(FALSE, pid, tx_id) /\ pid \in Ids(store)) =>
          IF LOCKED(store[pid])
          THEN /\ last'.ret = "True"
               /\ store' = [store EXCEPT ![pid] = [@ EXCEPT !.txid = tx_id, !.locked = FALSE]]
          ELSE store' = store

\* C25: a local_associate_locked(id, txid) that is not simulated, given the
\* id of a LOCKED row, sets that row's txid, clears its locked flag, changes
\* no other row and reports success; given the id of a row that is not
\* LOCKED it changes nothing.
C25_LocalAssociateLockedSetsTxid == [][C25_LocalAssociateLockedSetsTxid_Step]_vars

\* C26: every row of the currency's table, committed or in the session,
\* carries the configured currency code, so no operation, filtered by
\* currency or not, meets a row of another currency.
C26_CurrencyIsolation ==
    /\ \A i \in Ids(store) : store[i].currency_code = currency_code
    /\ \A i \in Ids(sess) : sess[i].currency_code = currency_code

\* reset_all_locked, which has no currency filter, ran on a full table
C26_UnfilteredResetRan ==
    /\ pc = "returned"
    /\ last.op = "reset_all_locked"
    /\ ~last.simulate
    /\ Len(store) >= 2

C27_WrapperContainsStoreError_Step ==
    (pc = "idle" /\ last'.env = "sqlalchemy_error") =>
          /\ last'.ret # "escaped"
          /\ sess' = store
          /\ store' = store

\* C27: when a scheduled job raises a SQLAlchemy error, the wrapper lets no
\* exception out: it rolls the session back to the committed table and
\* returns.
C27_WrapperContainsStoreError == [][C27_WrapperContainsStoreError_Step]_vars

C28_NoJobOverlap_Step ==
    (last'.op = "pull_payouts" /\ (last' # last \/ store' # store)) => pc = "idle"

\* C28: the scheduled pull_payouts takes no step while another scheduled
\* job of the currency (the send job between its commits) is running.
C28_NoJobOverlap == [][C28_NoJobOverlap_Step]_vars

\* C30: every POST to update_trade_requests made by a trade command follows
\* a prompt that the operator answered with exactly "y".
C30_TradePostOnlyAfterYes ==
    \A p \in last.posts : p.url = "update_trade_requests" => last.env = "y"

\* no row is among the rows selected by two sends in progress
NoRowSelectedByBoth ==
    \A p, q \in Procs : p # q => procSend[p].ids \cap procSend[q].ids = {}

\* no pid is among the recipient rows of two send_many calls
NoPidInBothSendMany ==
    \A p, q \in Procs :
       (p # q /\ procPc[p] \in {"send_many", "sent"} /\ procPc[q] \in {"send_many", "sent"}) =>
          {store[i].pid : i \in ProcRecipientRows(p)} \cap
          {store[i].pid : i \in ProcRecipientRows(q)} = {}

\* C29: when two processes run send_payout against the same table, no row
\* is selected by both and no pid is among the recipient rows of both
\* send_many calls.
C29_ConcurrentSendsDisjoint == NoRowSelectedByBoth /\ NoPidInBothSendMany

C38_SuccessAfterCommit_Step ==
    /\ (last'.op = "send_payout" /\ last'.ret = "tuple" /\ ~last'.simulate) =>
          /\ pc = "sent"
          /\ \A i \in RecipientRows :
                store'[i].txid = send.txid /\ store'[i].txid # None /\ ~store'[i].locked
    /\ (pc = "sent" /\ last'.op = "crash") =>
          \A i \in RecipientRows : LOCKED(store'[i])

\* C38: the step in which send_payout returns the tuple leaves every
\* recipient row committed with the txid and locked = false; when the
\* process stops between the return of send_many and that commit, every
\* recipient row is LOCKED in the table, not PULLED.
C38_SuccessAfterCommit == [][C38_SuccessAfterCommit_Step]_vars

\* the process stopped after the wallet had paid a row that is still LOCKED
C38_StoppedAfterSendMany ==
    /\ pc = "returned"
    /\ last.op = "crash"
    /\ \E i \in Ids(store) : LOCKED(store[i]) /\ sentCount[store[i].pid] = 1

\* C39: no row of the committed table has locked = true together with a
\* txid.
C39_LockedHasNoTxid ==
    \A i \in Ids(store) : store[i].locked => store[i].txid = None

\* C40: call never ends with an exception: for an operation that raised it
\* returns False, and for any other it returns the operation's own result.
C40_CallNeverRaises ==
    /\ last.called # "raised"
    /\ last.ret = "raised" => last.called = "False"
    /\ last.ret # "raised" => last.called = last.ret

\* an operation ended with an exception and its caller got False
C40_RaisedBecameFalse ==
    /\ pc = "returned"
    /\ last.op = "associate_all"
    /\ last.ret = "raised"
    /\ last.called = "False"

\* ------------------------------------------- a job over the currencies
\* the currencies with enabled: true in the configuration
Enabled == {"LTC", "DOGE", "BTC"}

\* the jobs entry() registers
Jobs == {"pull_payouts", "send_payout", "associate_all_payouts", "confirm_payouts"}

\* a job comes due: the wrapped method starts its loop over
\* self.sc_rpc.iteritems(), which yields the currencies in some order
TickStart ==
    /\ tick = NoTick
    /\ \E job \in Jobs : \E order \in Orders(Enabled) :
          tick' = [job |-> job, order |-> order, k |-> 1, ran |-> {}, failed |-> {},
                   outcome |-> "running"]
    /\ UNCHANGED <<store, sess, pc, send, sentCount, issued, last, exclusive, procPc, procSend>>

\* the body of the loop for the currency order[k]: the engine's operation
\* returns (True, or False for a failure it handled itself), raises an
\* exception, or raises a SQLAlchemyError.  An exception leaves the for
\* loop and the method and reaches crontab's handlers: the first logs and
\* fails on self.db, the second logs.
TickOperation(result) ==
    /\ tick.outcome = "running"
    /\ tick.k <= Len(tick.order)
    /\ tick' = CASE result = "True" ->
                     [tick EXCEPT !.ran = @ \cup {tick.order[tick.k]}, !.k = @ + 1]
                 [] result = "False" ->
                     [tick EXCEPT !.ran = @ \cup {tick.order[tick.k]},
                                  !.failed = @ \cup {tick.order[tick.k]}, !.k = @ + 1]
                 [] result = "raised" ->
                     [tick EXCEPT !.ran = @ \cup {tick.order[tick.k]},
                                  !.failed = @ \cup {tick.order[tick.k]},
                                  !.outcome = "caught"]
                 [] OTHER ->
                     [tick EXCEPT !.ran = @ \cup {tick.order[tick.k]},
                                  !.failed = @ \cup {tick.order[tick.k]},
                                  !.outcome = "escaped"]
    /\ UNCHANGED <<store, sess, pc, send, sentCount, issued, last, exclusive, procPc, procSend>>

\* the loop has gone through every currency: the method returns
TickLoopEnds ==
    /\ tick.outcome = "running"
    /\ tick.k > Len(tick.order)
    /\ tick' = [tick EXCEPT !.outcome = "returned"]
    /\ UNCHANGED <<store, sess, pc, send, sentCount, issued, last, exclusive, procPc, procSend>>

\* the job is over until it comes due again
TickDone ==
    /\ tick.outcome \in {"returned", "caught", "escaped"}
    /\ tick' = NoTick
    /\ UNCHANGED <<store, sess, pc, send, sentCount, issued, last, exclusive, procPc, procSend>>

TickNext ==
    \/ TickStart
    \/ \E result \in {"True", "False", "raised", "store_error"} : TickOperation(result)
    \/ TickLoopEnds
    \/ TickDone

TickSpec == Init /\ [][TickNext]_vars

\* --------------------------------------------- the scheduler, day after day
\* the pull job: pull_payouts() of the currency
SchedPull ==
    \/ PullUnreachable(FALSE)
    \/ PullRemoteError(FALSE)
    \/ \E resp \in Responses : PullResponse(FALSE, resp)

\* the send job: send_payout() and, after the tuple, the two associate calls
SchedSend ==
    \/ SendPokeFails(FALSE)
    \/ SendPayoutBegin(FALSE, "settle")
    \/ SendManyReturns
    \/ SendManyRaises
    \/ SendPayoutFinish
    \/ SettleAssociate

\* the associate job: associate_all() of the currency
SchedAssociate ==
    \E order \in Orders(TxidBuckets(sess)) :
    \E outcomes \in [TxidBuckets(sess) -> Outcomes(FALSE)] :
        AssociateAllStep(FALSE, order, outcomes)

LiveNext == SchedPull \/ SchedSend \/ SchedAssociate \/ Return

\* The cron triggers of entry() bring the send job and the associate job
\* round again and again whatever the other jobs do, and a job that has
\* started runs to its end.
LiveSpec ==
    /\ Init
    /\ [][LiveNext]_vars
    /\ SF_vars(SchedSend)
    /\ SF_vars(SchedAssociate)
    /\ WF_vars(Return)

\* ------------------------------------------------ pull over any response
\* amounts a get_payouts answer can carry: negative, zero, positive
WideAmounts == {-10, 0, 10}

\* the tuples (user, address, amount, pid) of an answer the code does not
\* constrain: any pid with any address and any amount
WideTuples == [pid : Pids, address : Addresses, amount : WideAmounts]

WideResponses == ListsUpTo(WideTuples, MaxResp) \ {<<>>}

\* pull_payouts on an answer drawn from WideResponses
PullWide ==
    \E simulate \in BOOLEAN : \E resp \in WideResponses : PullResponse(simulate, resp)

WideNext == PullWide \/ Return

WideSpec == Init /\ [][WideNext]_vars

\* C33: every row of the table has a strictly positive amount and an address
\* whose version is one of the accepted versions, whatever the coordinator
\* returned to pull.
C33_RowsPositiveValid ==
    \A i \in Ids(store) :
        /\ store[i].amount > 0
        /\ get_bcaddress_version(store[i].address) \in valid_address_versions

\* the half of C33 about addresses alone
C33_RowsValidAddress ==
    \A i \in Ids(store) :
        get_bcaddress_version(store[i].address) \in valid_address_versions

\* a request the description calls malformed: a value of the wrong Python
\* type, or a type that is neither 'buy' nor 'sell'
Malformed(tr) == ~tr.isinst \/ tr.type \notin {"buy", "sell"}

InList(tr, list) == \E j \in 1..Len(list) : list[j] = tr

\* C31: get_open_trade_requests returns None for an answer with any
\* malformed request, one of a type other than 'buy' and 'sell' included;
\* for any other answer it returns the sell list and the buy list, and
\* every request of the answer is in exactly one of them.
C31_RejectsMalformedElseSplits ==
    (last.op = "get_open_trade_requests" /\ last.env = "response") =>
        IF \E i \in 1..Len(last.trs) : Malformed(last.trs[i])
        THEN last.ret = "None"
        ELSE /\ last.ret = "tuple"
             /\ \A i \in 1..Len(last.trs) :
                   InList(last.trs[i], last.srs) # InList(last.trs[i], last.brs)
             /\ \A j \in 1..Len(last.srs) : last.srs[j].type = "sell"
             /\ \A j \in 1..Len(last.brs) : last.brs[j].type = "buy"

\* the same without the rejection of a type other than 'buy' and 'sell'
C31_RejectsIllTypedElseSplits ==
    (last.op = "get_open_trade_requests" /\ last.env = "response") =>
        IF \E i \in 1..Len(last.trs) : ~last.trs[i].isinst
        THEN last.ret = "None"
        ELSE /\ last.ret = "tuple"
             /\ \A i \in 1..Len(last.trs) :
                   last.trs[i].type \in {"buy", "sell"} =>
                      InList(last.trs[i], last.srs) # InList(last.trs[i], last.brs)
             /\ \A j \in 1..Len(last.srs) : last.srs[j].type = "sell"
             /\ \A j \in 1..Len(last.brs) : last.brs[j].type = "buy"

\* the requests of the answer that close_sell_requests is to close: the
\* sell requests of the currency with an id inside the given range
SelectedTrs ==
    {i \in 1..Len(last.trs) :
        /\ last.trs[i].type = "sell"
        /\ last.trs[i].currency = last.args.currency
        /\ (last.args.start_tr_id = None \/ last.trs[i].tr_id >= last.args.start_tr_id)
        /\ (last.args.stop_tr_id = None \/ last.trs[i].tr_id <= last.args.stop_tr_id)}

SelectedIds == {last.trs[i].tr_id : i \in SelectedTrs}

RECURSIVE SumQuantity(_)
SumQuantity(is) ==
    IF is = {} THEN 0
    ELSE LET i == CHOOSE j \in is : TRUE
         IN last.trs[i].quantity + SumQuantity(is \ {i})

\* x, in units of 1/DecimalScale, is the share quantity/total of amount to
\* within the rounding of the quotient
ProRata(x, quantity, total, amount) ==
    LET d == x * total - quantity * amount * DecimalScale
    IN 2 * (IF d < 0 THEN -d ELSE d) <= total * amount

C36_SettleAssociatesOnce_Step ==
    /\ (pc # "settle" /\ pc' = "settle") =>
          (last'.op = "send_payout" /\ last'.ret = "tuple")
    /\ \A order \in Orders(TxidBuckets(sess)) :
       \A outcomes \in [TxidBuckets(sess) -> Outcomes(FALSE)] :
       \A answer \in Answers :
          SettleAssociateStep(order, outcomes, answer) =>
             LET all == AssociateAllResult(sess, store, order, outcomes, FALSE)
                 second == ~all.raised
             IN (\E p \in all.posts : p.txid = send.txid /\ p.answer = "true") => ~second

\* C36: the settle job goes on to associate only from a send that returned
\* the tuple, and once the coordinator answered result=true to a POST for
\* the new txid the job makes no further POST for that txid.
C36_SettleAssociatesOnce == [][C36_SettleAssociatesOnce_Step]_vars

\* the half of C36 about the order of send and associate
C36_AssociateAfterTuple_Step ==
    /\ (pc # "settle" /\ pc' = "settle") =>
          (last'.op = "send_payout" /\ last'.ret = "tuple")
    /\ (last'.op = "settle" /\ last.op # "settle") => pc = "settle"

C36_AssociateAfterTuple == [][C36_AssociateAfterTuple_Step]_vars

\* C37: when a scheduled job has ended, its operation has run for every
\* enabled currency, whether or not it failed or raised for one of them.
C37_EveryCurrencyRuns ==
    tick.outcome \in {"returned", "caught", "escaped"} => tick.ran = Enabled

\* the half of C37 about a failure the operation reports by its result
C37_FailureDoesNotStopLoop ==
    tick.outcome = "returned" => tick.ran = Enabled

\* a job ended after the operation had failed for one currency and run for
\* the others
C37_FailedAndWentOn ==
    tick.outcome = "returned" /\ tick.failed # {} /\ tick.ran = Enabled

\* what the wallet does to a send_payout that does not go through
WalletTrouble ==
    {"poke_failed", "get_balance_failed", "balance_low", "rpc_error_no_balance",
     "rpc_error_balance_same", "rpc_error_balance_changed"}

\* from some point on the wallet is reachable, holds the funds, and
\* send_many succeeds; before it, no send_many failed with a changed balance
WalletRecovers ==
    /\ [](last.env # "rpc_error_balance_changed")
    /\ <>[](last.env \notin WalletTrouble)

\* row i is PULLED and the PULLED rows of its address add up, rounded, to
\* the minimum output or more
PulledPayable(i) ==
    /\ i \in Ids(store)
    /\ PULLED(store[i])
    /\ Round8(SumAmounts(store, {j \in Ids(store) :
                                   PULLED(store[j]) /\ store[j].address = store[i].address}))
          >= minimum_tx_output

HasTxid(i) == i \in Ids(store) /\ store[i].txid # None

\* C34: if the wallet recovers, then with the send job coming round again
\* and again every PULLED row whose address adds up to the minimum output
\* or more eventually has a txid.
C34_PulledEventuallyPaid ==
    WalletRecovers => \A i \in 1..MaxRows : PulledPayable(i) ~> HasTxid(i)

\* the same when, besides, get_balance never raises
C34_PaidUnlessGetBalanceRaises ==
    (WalletRecovers /\ [](last.env \notin {"get_balance_failed", "rpc_error_no_balance"}))
       => \A i \in 1..MaxRows : PulledPayable(i) ~> HasTxid(i)

\* the wallet looks txid t up whenever asked, the coordinator answers every
\* POST it gets, and from some point on answers those for t with result=true
CanBeAssociated(t) ==
    /\ [](t \notin last.no_fee)
    /\ [](\A p \in last.posts : p.answer # "raised")
    /\ <>[](\A p \in last.posts : p.txid = t => p.answer = "true")

SomePaid(t) == \E i \in Ids(store) : store[i].txid = t /\ PAID(store[i])

\* C35: with the associate job coming round again and again, the PAID rows
\* of a txid that the wallet can look up, and that the coordinator comes to
\* accept, eventually are all ASSOCIATED, whatever happens to other txids.
C35_PaidEventuallyAssociated ==
    \A t \in Txids : CanBeAssociated(t) => (SomePaid(t) ~> ~SomePaid(t))

\* the same when no get_transaction raises for any txid
C35_AssociatedUnlessOtherRaises ==
    \A t \in Txids :
       (CanBeAssociated(t) /\ [](last.op \in {"associate_all", "settle"} => last.ret # "raised"))
          => (SomePaid(t) ~> ~SomePaid(t))

====
